---- MODULE Spec2Model ----
(***************************************************************************)
(* A model of book_badminton_courts.py: the time-slot generator, the       *)
(* booking-state and availability fetchers, the reconciliation loop        *)
(* (check_book_time_slots), the booking submitter (book_time_slots), the   *)
(* calendar mirror (generate_calendar_event) and main's two pathways.      *)
(*                                                                         *)
(* Slot labels are strings ("17:00", "17:00 (last)").  Dates are day       *)
(* numbers; Today is the day datetime.now() reports during the run.        *)
(* Python dicts are sequences of [key, val] records in insertion order.    *)
(* The venue and the calendar service are the environment: each request    *)
(* draws its reply from a small set.                                       *)
(***************************************************************************)
EXTENDS Integers, Sequences, FiniteSets, TLC

VARIABLES pc, start_time, duration, courts, book_courts, fill_courts,
          time_slots, booked, availability, idx, log

vars == <<pc, start_time, duration, courts, book_courts, fill_courts,
          time_slots, booked, availability, idx, log>>

(***************************************************************************)
(* Bounds of the model.                                                    *)
(***************************************************************************)
MaxDuration == 25
MaxCourts == 2
MaxRows == 2

(***************************************************************************)
(* datetime.now() during the run, as a day number: a run does not last     *)
(* past midnight.                                                          *)
(***************************************************************************)
Today == 0

(***************************************************************************)
(* "%H:%M": strftime writes two digits for each field; strptime reads one  *)
(* or two digits for the hour.                                             *)
(***************************************************************************)
Digit(d) == <<"0", "1", "2", "3", "4", "5", "6", "7", "8", "9">>[d + 1]

Pad2(n) == Digit(n \div 10) \o Digit(n % 10)

Minutes == {0, 30}

Times == [hour : 0..23, minute : Minutes]

strftime_HM(t) == Pad2(t.hour) \o ":" \o Pad2(t.minute)

Unpadded(t) ==
    (IF t.hour < 10 THEN Digit(t.hour) ELSE Pad2(t.hour)) \o ":" \o Pad2(t.minute)

ParseTable == {<<strftime_HM(t), t>> : t \in Times} \cup {<<Unpadded(t), t>> : t \in Times}

strptime_HM(s) == (CHOOSE p \in ParseTable : p[1] = s)[2]

\* datetime + timedelta(hours=n), of which only the time of day is used
AddHours(t, n) == [hour |-> (t.hour + n) % 24, minute |-> t.minute]

\* int(start_time_str.split(":")[0])
HourOf(s) == strptime_HM(s).hour

(***************************************************************************)
(* get_time_slots: the loop body runs for _ in range(1, duration).         *)
(***************************************************************************)
RECURSIVE GetTimeSlotsLoop(_, _, _)
GetTimeSlotsLoop(timeslots, start, n) ==
    IF n <= 0 THEN timeslots
    ELSE LET next_time == strftime_HM(AddHours(strptime_HM(start), 1))
         IN  GetTimeSlotsLoop(Append(timeslots, next_time), next_time, n - 1)

GetTimeSlotsOffByOne(start, dur) == GetTimeSlotsLoop(<<start>>, start, dur)

get_time_slots(start, dur) == GetTimeSlotsLoop(<<start>>, start, dur - 1)

(***************************************************************************)
(* Python dicts and lists.                                                 *)
(***************************************************************************)
InList(x, l) == \E i \in 1..Len(l) : l[i] = x

HasKey(d, k) == \E i \in 1..Len(d) : d[i].key = k

Get(d, k) == d[CHOOSE i \in 1..Len(d) : d[i].key = k].val

\* d[k] = v: a new key goes last, an existing key keeps its place
Put(d, k, v) ==
    IF HasKey(d, k)
    THEN [i \in 1..Len(d) |-> IF d[i].key = k THEN [key |-> k, val |-> v] ELSE d[i]]
    ELSE Append(d, [key |-> k, val |-> v])

Keys(d) == [i \in 1..Len(d) |-> d[i].key]

Values(d) == [i \in 1..Len(d) |-> d[i].val]

\* d.update(other)
RECURSIVE Update(_, _)
Update(d, other) ==
    IF other = <<>> THEN d
    ELSE Update(Put(d, Head(other).key, Head(other).val), Tail(other))

(***************************************************************************)
(* get_booking_times: one row of the venue's booking table is              *)
(* [idag, date, start_time, duration]; idag says the date cell reads       *)
(* "Idag", duration is the first character of the duration cell.           *)
(***************************************************************************)
RECURSIVE CountHours(_, _, _, _)
CountHours(slots, start_time_obj, i, n) ==
    IF i >= n THEN slots
    ELSE LET next_start_time == strftime_HM(AddHours(start_time_obj, i))
             count == IF HasKey(slots, next_start_time) /\ Get(slots, next_start_time) # 0
                      THEN Get(slots, next_start_time)
                      ELSE 0
         IN  CountHours(Put(slots, next_start_time, count + 1), start_time_obj, i + 1, n)

RECURSIVE BookingTimesLoop(_, _)
BookingTimesLoop(booked_times, rows) ==
    IF rows = <<>> THEN booked_times
    ELSE LET row == Head(rows)
             date == IF row.idag THEN Today ELSE row.date
             bt == IF ~HasKey(booked_times, date) \/ Get(booked_times, date) = <<>>
                   THEN Put(booked_times, date, <<>>)
                   ELSE booked_times
             slots == CountHours(Get(bt, date), strptime_HM(row.start_time), 0, row.duration)
         IN  BookingTimesLoop(Put(bt, date, slots), Tail(rows))

get_booking_times(rows) == BookingTimesLoop(<<>>, rows)

\* booked_times.get(date): None is reported as the empty dict, both are falsy
get_booked_time_slot(date, booked_times) ==
    IF HasKey(booked_times, date) THEN Get(booked_times, date) ELSE <<>>

(***************************************************************************)
(* get_available_slots: one free-slot widget of the venue's reply is       *)
(* [name, last]; last says its class list holds "last-free-lane".          *)
(***************************************************************************)
RECURSIVE AvailableLoop(_, _, _)
AvailableLoop(found, items, slots) ==
    IF items = <<>> THEN found
    ELSE LET item == Head(items)
             time_slot == IF item.last THEN item.name \o " (last)" ELSE item.name
         IN  IF ~InList(item.name, slots)
             THEN AvailableLoop(found, Tail(items), slots)
             ELSE AvailableLoop(Append(found, time_slot), Tail(items), slots)

get_available_slots(date, slots, items) ==
    LET found == AvailableLoop(<<>>, items, slots)
    IN  IF found = <<>> THEN <<>> ELSE <<[key |-> date, val |-> found]>>

\* the venue's reply for a date: free maps the dates with free courts to their widgets
VenueFree(free, date) == IF date \in DOMAIN free THEN free[date] ELSE <<>>

RECURSIVE UptoGivenDaysLoop(_, _, _, _, _, _)
UptoGivenDaysLoop(avail, i, days, slots, weekday, free) ==
    IF i >= days THEN avail
    ELSE LET req_date == Today + i
         IN  IF (weekday + i) % 7 > 4
             THEN UptoGivenDaysLoop(avail, i + 1, days, slots, weekday, free)
             ELSE UptoGivenDaysLoop(
                      Update(avail, get_available_slots(req_date, slots, VenueFree(free, req_date))),
                      i + 1, days, slots, weekday, free)

get_available_slots_upto_given_days(days, slots, weekday, free) ==
    UptoGivenDaysLoop(<<>>, 0, days, slots, weekday, free)

(***************************************************************************)
(* What the run does to the outside world, in order: the calls of          *)
(* book_time_slots and generate_calendar_event, the lines they log, the    *)
(* POSTs sent to the venue and the calendar events inserted or updated.    *)
(***************************************************************************)
CaughtHTTPErrorOnly == {"HTTPError"}

\* the exceptions the try of book_time_slots catches
Caught == {"HTTPError", "Timeout"}

\* requests.post and raise_for_status: the outcomes of the booking POST
PostResults == {"ok", "HTTPError", "Timeout", "ConnectionError"}

IsSameDateNever(date) == FALSE

\* date == datetime.now().strftime("%Y-%m-%d")
IsSameDate(date) == date = Today

\* an exception leaves book_time_slots
BookTimeSlotsRaises(date, result) ==
    ~IsSameDate(date) /\ result # "ok" /\ result \notin Caught

book_time_slots(date, slots, result) ==
    <<[op |-> "book_time_slots", date |-> date, time_slots |-> slots]>>
    \o (IF IsSameDate(date)
        THEN <<[op |-> "skipped_booking", date |-> date]>>
        ELSE <<[op |-> "POST", date |-> date, time_slots |-> slots, result |-> result]>>
             \o (IF result \in Caught
                 THEN <<[op |-> "failed_to_book", date |-> date, time_slots |-> slots]>>
                 ELSE <<>>))

\* list(time_slots.keys())[0]
FirstKey(slots) == Keys(slots)[1]

\* booked_times is the booking table as get_booking_times fetches it again,
\* event_id says get_badminton_event found an event of that day
generate_calendar_event(date, booked_times, event_id) ==
    LET slots == get_booked_time_slot(date, booked_times)
        start_time_hour == HourOf(FirstKey(slots))
        dur == Len(slots)
    IN  <<[op |-> "generate_calendar_event", date |-> date]>>
        \o (IF IsSameDate(date)
            THEN <<[op |-> "skipped_event", date |-> date]>>
            ELSE IF slots = <<>>
            THEN <<[op |-> "nothing_booked", date |-> date]>>
            ELSE <<[op |-> IF event_id THEN "update" ELSE "insert",
                    date |-> date,
                    booked_slots |-> Keys(slots),
                    summary |-> Values(slots),
                    start_hour |-> start_time_hour,
                    end_hour |-> start_time_hour + dur]>>)

(***************************************************************************)
(* check_book_time_slots: the body of its loop, for one date of booked.    *)
(***************************************************************************)
HasDeficitOrEqual(val, num_of_courts) == val <= num_of_courts

HasDeficit(val, num_of_courts) == val < num_of_courts

BookableDesiredOnly(slots, num_of_courts) ==
    Keys(SelectSeq(slots, LAMBDA e : HasDeficit(e.val, num_of_courts) /\ InList(e.key, time_slots)))

Bookable(slots, num_of_courts) ==
    Keys(SelectSeq(slots, LAMBDA e : HasDeficit(e.val, num_of_courts)))

\* not availability.get(date)
NoAvailability(avail, date) == ~HasKey(avail, date) \/ Get(avail, date) = <<>>

AnyAvailable(bookable, avail, date) ==
    \E i \in 1..Len(bookable) : InList(bookable[i], Get(avail, date))

SubmittedIntersection(bookable, avail, date) ==
    SelectSeq(bookable, LAMBDA s : InList(s, Get(avail, date)))

\* the list handed to book_time_slots
Submitted(bookable, avail, date) == bookable

TriggersOnDeficitAlone(date, slots, avail, num_of_courts) ==
    Bookable(slots, num_of_courts) # <<>>

Triggers(date, slots, avail, num_of_courts) ==
    /\ ~NoAvailability(avail, date)
    /\ AnyAvailable(Bookable(slots, num_of_courts), avail, date)

(***************************************************************************)
(* The environment's replies.                                              *)
(***************************************************************************)
RowStarts == {"17:00", "18:00"}

\* the rows of the fill pathway's fetch start at the default start time
FillRowStarts == {"17:00"}

RowDurations == {1, 2}

RowDates == {Today + 1, Today + 2}

BookingRows ==
    [idag : {TRUE}, date : {Today}, start_time : RowStarts, duration : RowDurations]
    \cup [idag : {FALSE}, date : RowDates, start_time : RowStarts, duration : RowDurations]

RowLists == UNION {[1..n -> BookingRows] : n \in 0..MaxRows}

FillRowLists == {rows \in RowLists : \A i \in 1..Len(rows) : rows[i].start_time \in FillRowStarts}

Row(date, start, dur) == [idag |-> FALSE, date |-> date, start_time |-> start, duration |-> dur]

\* the booking table when a pathway's generate_calendar_event fetches it again
CalReplies(date) == {<<>>, <<Row(date, "17:00", 1)>>}

Item(name, last) == [name |-> name, last |-> last]

FreeChoices ==
    {<<>>,
     <<Item("17:00", FALSE)>>,
     <<Item("17:00", TRUE), Item("18:00", FALSE), Item("19:00", FALSE)>>}

FreeDates == {Today, Today + 1, Today + 2}

(***************************************************************************)
(* main: the command line, then the two pathways.                          *)
(***************************************************************************)
CliStartTimes == {"17:00"}

CliDurations == {1, 2}

\* days = 14  # 2 weeks
BookDays == 14

\* get_available_slots_upto_given_days(16, time_slots)
FillDays == 16

\* main tests --book-courts and then --fill-courts; the runs enumerated here
\* are given one of the two flags, or neither
Init ==
    /\ pc = "main"
    /\ start_time \in CliStartTimes
    /\ duration \in CliDurations
    /\ courts \in 1..MaxCourts
    /\ book_courts \in BOOLEAN
    /\ fill_courts \in BOOLEAN
    /\ ~(book_courts /\ fill_courts)
    /\ time_slots = <<>>
    /\ booked = <<>>
    /\ availability = <<>>
    /\ idx = 0
    /\ log = <<>>

Main ==
    /\ pc = "main"
    /\ time_slots' = get_time_slots(start_time, duration)
    /\ idx' = 0
    /\ pc' = IF book_courts THEN "book_courts"
             ELSE IF fill_courts THEN "fill_courts" ELSE "done"
    /\ UNCHANGED <<start_time, duration, courts, book_courts, fill_courts,
                   booked, availability, log>>

\* req_date = today + timedelta(days=days)
ReqDate(days) == Today + days

BookRangeShort(num_of_courts) == num_of_courts - 1

\* for _ in range(num_of_courts)
BookRange(num_of_courts) == num_of_courts

\* book_courts_on_desired_date: one pass of its loop
BookOnDesiredDate ==
    /\ pc = "book_courts"
    /\ idx < BookRange(courts)
    /\ \E result \in PostResults :
          /\ log' = log \o book_time_slots(ReqDate(BookDays), time_slots, result)
          /\ IF BookTimeSlotsRaises(ReqDate(BookDays), result)
             THEN pc' = "crashed" /\ idx' = idx
             ELSE pc' = pc /\ idx' = idx + 1
    /\ UNCHANGED <<start_time, duration, courts, book_courts, fill_courts,
                   time_slots, booked, availability>>

\* book_courts_on_desired_date: the calendar event after the loop, and its return
MirrorDesiredDate ==
    /\ pc = "book_courts"
    /\ idx >= BookRange(courts)
    /\ \E rows \in CalReplies(ReqDate(BookDays)), event_id \in BOOLEAN :
          log' = log \o generate_calendar_event(
                            ReqDate(BookDays), get_booking_times(rows), event_id)
    /\ idx' = 0
    /\ pc' = IF fill_courts THEN "fill_courts" ELSE "done"
    /\ UNCHANGED <<start_time, duration, courts, book_courts, fill_courts,
                   time_slots, booked, availability>>

\* book_from_booked_times: the two fetches
BookFromBookedTimes ==
    /\ pc = "fill_courts"
    /\ \E rows \in FillRowLists, weekday \in 0..6, free \in [FreeDates -> FreeChoices] :
          /\ booked' = get_booking_times(rows)
          /\ availability' =
                 get_available_slots_upto_given_days(FillDays, time_slots, weekday, free)
    /\ idx' = 1
    /\ pc' = "check"
    /\ UNCHANGED <<start_time, duration, courts, book_courts, fill_courts,
                   time_slots, log>>

\* check_book_time_slots: one pass of its loop, for the idx-th date of booked
CheckBookTimeSlots ==
    /\ pc = "check"
    /\ idx <= Len(booked)
    /\ LET date == booked[idx].key
           bookable_time_slots == Bookable(booked[idx].val, courts)
       IN  IF Triggers(date, booked[idx].val, availability, courts)
           THEN \E result \in PostResults, rows \in CalReplies(date), event_id \in BOOLEAN :
                   LET sent == book_time_slots(
                                   date, Submitted(bookable_time_slots, availability, date), result)
                   IN  IF BookTimeSlotsRaises(date, result)
                       THEN /\ log' = log \o sent
                            /\ pc' = "crashed"
                            /\ idx' = idx
                       ELSE /\ log' = log \o sent \o generate_calendar_event(
                                                   date, get_booking_times(rows), event_id)
                            /\ pc' = pc
                            /\ idx' = idx + 1
           ELSE /\ log' = log
                /\ pc' = pc
                /\ idx' = idx + 1
    /\ UNCHANGED <<start_time, duration, courts, book_courts, fill_courts,
                   time_slots, booked, availability>>

\* check_book_time_slots returns, and main with it
CheckReturn ==
    /\ pc = "check"
    /\ idx > Len(booked)
    /\ pc' = "done"
    /\ UNCHANGED <<start_time, duration, courts, book_courts, fill_courts,
                   time_slots, booked, availability, idx, log>>

Next ==
    \/ Main
    \/ BookOnDesiredDate
    \/ MirrorDesiredDate
    \/ BookFromBookedTimes
    \/ CheckBookTimeSlots
    \/ CheckReturn

Spec == Init /\ [][Next]_vars

(***************************************************************************)
(* get_time_slots on its own, over every start time and duration.          *)
(***************************************************************************)
SlotStartTimes == {strftime_HM(t) : t \in Times} \cup {Unpadded(t) : t \in Times}

InitSlots ==
    /\ pc = "get_time_slots"
    /\ start_time \in SlotStartTimes
    /\ duration \in 0..MaxDuration
    /\ courts = 1
    /\ book_courts = FALSE
    /\ fill_courts = FALSE
    /\ time_slots = <<>>
    /\ booked = <<>>
    /\ availability = <<>>
    /\ idx = 0
    /\ log = <<>>

GetTimeSlots ==
    /\ pc = "get_time_slots"
    /\ time_slots' = get_time_slots(start_time, duration)
    /\ pc' = "returned"
    /\ UNCHANGED <<start_time, duration, courts, book_courts, fill_courts,
                   booked, availability, idx, log>>

NextSlots == GetTimeSlots

SpecSlots == InitSlots /\ [][NextSlots]_vars

(***************************************************************************)
(* check_book_time_slots on its own, over booked and availability          *)
(* mappings of every shape: dates in any order, dates without an entry in  *)
(* availability, empty entries, labels marked " (last)".                   *)
(***************************************************************************)
CheckDates == {Today, Today + 1}

Counts == 1..MaxCourts

Entry(k, v) == [key |-> k, val |-> v]

SlotDicts ==
    {<<>>}
    \cup {<<Entry("17:00", c)>> : c \in Counts}
    \cup {<<Entry("17:00", c), Entry("18:00", d)>> : c \in Counts, d \in Counts}
    \cup {<<Entry("18:00", c), Entry("17:00", d)>> : c \in Counts, d \in Counts}

BookedChoices ==
    {<<>>}
    \cup {<<Entry(d, s)>> : d \in CheckDates, s \in SlotDicts}
    \cup {<<Entry(Today, s), Entry(Today + 1, t)>> : s \in SlotDicts, t \in SlotDicts}
    \cup {<<Entry(Today + 1, s), Entry(Today, t)>> : s \in SlotDicts, t \in SlotDicts}

AvailLists == {<<>>, <<"18:00">>, <<"17:00", "18:00 (last)">>}

AvailabilityChoices ==
    {<<>>}
    \cup {<<Entry(d, l)>> : d \in CheckDates, l \in AvailLists}
    \cup {<<Entry(Today, l), Entry(Today + 1, m)>> : l \in AvailLists, m \in AvailLists}

InitCheck ==
    /\ pc = "check"
    /\ start_time \in CliStartTimes
    /\ duration = 2
    /\ courts \in 1..MaxCourts
    /\ book_courts = FALSE
    /\ fill_courts = TRUE
    /\ time_slots = get_time_slots(start_time, duration)
    /\ booked \in BookedChoices
    /\ availability \in AvailabilityChoices
    /\ idx = 1
    /\ log = <<>>

NextCheck ==
    \/ CheckBookTimeSlots
    \/ CheckReturn

SpecCheck == InitCheck /\ [][NextCheck]_vars

(***************************************************************************)
(* generate_calendar_event on its own, over the booking tables the venue   *)
(* may report, rows in any order.                                          *)
(***************************************************************************)
InitCalendar ==
    /\ pc = "calendar"
    /\ start_time \in CliStartTimes
    /\ duration = 2
    /\ courts = 1
    /\ book_courts = FALSE
    /\ fill_courts = FALSE
    /\ time_slots = <<>>
    /\ booked \in {get_booking_times(rows) : rows \in RowLists}
    /\ availability = <<>>
    /\ idx = 0
    /\ log = <<>>

GenerateCalendarEvent ==
    /\ pc = "calendar"
    /\ \E date \in {Today} \cup RowDates, event_id \in BOOLEAN :
          log' = generate_calendar_event(date, booked, event_id)
    /\ pc' = "done"
    /\ UNCHANGED <<start_time, duration, courts, book_courts, fill_courts,
                   time_slots, booked, availability, idx>>

NextCalendar == GenerateCalendarEvent

SpecCalendar == InitCalendar /\ [][NextCalendar]_vars

(***************************************************************************)
(* Properties.                                                             *)
(***************************************************************************)
LogIndex == 1..Len(log)

\* the dates of booked the loop of check_book_time_slots has been through
Visited == {k \in 1..Len(booked) : k < idx}

\* the slots of the k-th date of booked held on fewer courts than wanted
DeficitSet(k) ==
    {booked[k].val[j].key : j \in {j \in 1..Len(booked[k].val) : booked[k].val[j].val < courts}}

\* the labels availability holds for the k-th date of booked
FreeSet(k) ==
    IF \E a \in 1..Len(availability) : availability[a].key = booked[k].key
    THEN LET a == CHOOSE a \in 1..Len(availability) : availability[a].key = booked[k].key
         IN  {availability[a].val[j] : j \in 1..Len(availability[a].val)}
    ELSE {}

\* l lists exactly the elements of the dict d that satisfy the deficit test, in d's order
RECURSIVE IsDeficitList(_, _)
IsDeficitList(l, d) ==
    IF d = <<>> THEN l = <<>>
    ELSE IF Head(d).val < courts
         THEN l # <<>> /\ Head(l) = Head(d).key /\ IsDeficitList(Tail(l), Tail(d))
         ELSE IsDeficitList(l, Tail(d))

CallsFor(date) ==
    {i \in LogIndex : log[i].op = "book_time_slots" /\ log[i].date = date}

\* C1: in fill mode, a date with at least one deficit slot in availability[date]
\* gets one call of book_time_slots, with the full list of the date's deficit
\* slots in booked order, not only the deficit slots that are free.
C1_FullDeficitListSubmitted ==
    \A k \in Visited :
        DeficitSet(k) \cap FreeSet(k) # {} =>
            /\ Cardinality(CallsFor(booked[k].key)) = 1
            /\ \A i \in CallsFor(booked[k].key) :
                   IsDeficitList(log[i].time_slots, booked[k].val)

C1_Witness ==
    /\ pc = "done"
    /\ \E k \in Visited :
          /\ DeficitSet(k) \cap FreeSet(k) # {}
          /\ DeficitSet(k) \ FreeSet(k) # {}
          /\ \E i \in CallsFor(booked[k].key) : Len(log[i].time_slots) = 2

\* C2: check_book_time_slots calls neither book_time_slots nor
\* generate_calendar_event for a date that has no entry in availability, or
\* whose entry is empty.
C2_NoCallWithoutAvailability ==
    \A i \in LogIndex :
        log[i].op \in {"book_time_slots", "generate_calendar_event"} =>
            \E a \in 1..Len(availability) :
                availability[a].key = log[i].date /\ availability[a].val # <<>>

C2_Witness ==
    /\ pc = "done"
    /\ \E k \in Visited, m \in Visited :
          /\ DeficitSet(k) # {}
          /\ ~\E a \in 1..Len(availability) : availability[a].key = booked[k].key
          /\ DeficitSet(m) # {}
          /\ \E a \in 1..Len(availability) :
                availability[a].key = booked[m].key /\ availability[a].val = <<>>

\* C3: a date of booked whose every slot is held on at least num_of_courts
\* courts triggers no submission and no calendar upsert, whatever
\* availability holds for it.
C3_NoDeficitNoAction ==
    \A k \in Visited :
        (\A j \in 1..Len(booked[k].val) : booked[k].val[j].val >= courts) =>
            ~\E i \in LogIndex : log[i].date = booked[k].key

C3_Witness ==
    /\ pc = "done"
    /\ \E k \in Visited :
          /\ booked[k].val # <<>>
          /\ \A j \in 1..Len(booked[k].val) : booked[k].val[j].val >= courts
          /\ \E j \in 1..Len(booked[k].val) : booked[k].val[j].key \in FreeSet(k)

\* C4: a call of book_time_slots or generate_calendar_event with the current
\* date sends no booking POST and inserts or updates no calendar event.
C4_SameDateRefused ==
    \A i \in LogIndex :
        log[i].op \in {"POST", "insert", "update"} => log[i].date # Today

C4_Witness ==
    /\ pc = "done"
    /\ \E i \in LogIndex : log[i].op = "book_time_slots" /\ log[i].date = Today
    /\ \E i \in LogIndex : log[i].op = "generate_calendar_event" /\ log[i].date = Today

\* the calls of the two collaborators, in order
Calls ==
    SelectSeq(log, LAMBDA e : e.op \in {"book_time_slots", "generate_calendar_event"})

\* C5: the fixed-future-day pathway calls book_time_slots num_of_courts times,
\* each time with the date today + 14 and the full desired slot list, then
\* generate_calendar_event once for that date.
C5_BookPathwayCalls ==
    (book_courts /\ pc = "done") =>
        /\ Len(Calls) = courts + 1
        /\ \A i \in 1..courts :
               /\ Calls[i].op = "book_time_slots"
               /\ Calls[i].date = Today + 14
               /\ Calls[i].time_slots = time_slots
        /\ Calls[courts + 1].op = "generate_calendar_event"
        /\ Calls[courts + 1].date = Today + 14

C5_Witness ==
    /\ book_courts
    /\ pc = "done"
    /\ courts = 2
    /\ Len(time_slots) = 2
    /\ \E i \in LogIndex : log[i].op = "failed_to_book"
    /\ \E i \in LogIndex : log[i].op = "insert"

\* the claim's start times: two digits for the hour
IsPadded(s) == \E t \in Times : s = strftime_HM(t)

\* C6: for a start time HH:MM and 1 <= duration <= 24 - start hour,
\* get_time_slots returns duration labels, the first the start time, each of
\* the others one hour after the one before it.
C6_TimeSlotsHourly ==
    (pc = "returned" /\ duration >= 1 /\ duration <= 24 - HourOf(start_time)) =>
        /\ Len(time_slots) = duration
        /\ time_slots[1] = start_time
        /\ \A i \in 1..(Len(time_slots) - 1) :
               \E t \in Times :
                   /\ t.hour < 23
                   /\ time_slots[i] \in {strftime_HM(t), Unpadded(t)}
                   /\ time_slots[i + 1] = strftime_HM([hour |-> t.hour + 1, minute |-> t.minute])

C6_Witness ==
    /\ pc = "returned"
    /\ IsPadded(start_time)
    /\ duration = 24 - HourOf(start_time)
    /\ duration >= 3
    /\ time_slots[Len(time_slots)] = "23:30"

\* the hours of the slots booked on a date
BookedHours(date) ==
    {HourOf(k) : k \in {Get(booked, date)[j].key : j \in 1..Len(Get(booked, date))}}

\* C7: an event upserted for a date starts at the earliest booked slot of the
\* date and ends count(booked slots) hours later, in whatever order the
\* venue's booking list reports the slots.
C7_EventFromEarliestSlot ==
    \A i \in LogIndex :
        log[i].op \in {"insert", "update"} =>
            /\ \A h \in BookedHours(log[i].date) : log[i].start_hour <= h
            /\ log[i].end_hour = log[i].start_hour + Cardinality(BookedHours(log[i].date))

\* the slots fill mode attempts to book for the k-th date of booked
Attempted(k) ==
    UNION {{log[i].time_slots[j] : j \in 1..Len(log[i].time_slots)} :
               i \in CallsFor(booked[k].key)}

DesiredSet == {time_slots[j] : j \in 1..Len(time_slots)}

\* C8 as stated: the slots fill mode attempts to book for a date are exactly
\* the desired slots with a deficit on that date that appear in
\* availability[date].
C8_AttemptedIsIntersection ==
    \A k \in Visited :
        Attempted(k) = DesiredSet \cap DeficitSet(k) \cap FreeSet(k)

\* C8 as amended: the slots fill mode attempts to book for a date are all the
\* slots of booked[date] with a deficit when at least one of them appears in
\* availability[date], and none otherwise.
C8_AttemptedIsWholeDeficit ==
    \A k \in Visited :
        Attempted(k) = IF DeficitSet(k) \cap FreeSet(k) # {} THEN DeficitSet(k) ELSE {}

C8_Witness ==
    /\ pc = "done"
    /\ fill_courts
    /\ \E k \in Visited :
          /\ DeficitSet(k) \cap FreeSet(k) # {}
          /\ Attempted(k) \ FreeSet(k) # {}
          /\ Attempted(k) \ DesiredSet # {}

\* C9: every label stored in availability[date] is one of the desired slots,
\* also for the widgets marked as the last free lane.
C9_AvailabilityWithinDesired ==
    \A a \in 1..Len(availability) :
        \A j \in 1..Len(availability[a].val) : InList(availability[a].val[j], time_slots)

PostsFor(date) == {i \in LogIndex : log[i].op = "POST" /\ log[i].date = date}

\* C10: in fill mode a booking POST that fails with an HTTP error or a timeout
\* is logged by book_time_slots and the pass goes on with the calendar event
\* of that date; the run ends having been through every date of booked; each
\* date gone through that called for a submission has its one POST in the log.
C10_FailedPostDoesNotStopRun ==
    fill_courts =>
        /\ \A i \in LogIndex :
               (log[i].op = "POST" /\ log[i].result \in {"HTTPError", "Timeout"}) =>
                   /\ Len(log) >= i + 2
                   /\ log[i + 1].op = "failed_to_book"
                   /\ log[i + 1].date = log[i].date
                   /\ log[i + 2].op = "generate_calendar_event"
                   /\ log[i + 2].date = log[i].date
        /\ pc = "done" => idx = Len(booked) + 1
        /\ \A k \in Visited :
               (DeficitSet(k) \cap FreeSet(k) # {} /\ booked[k].key # Today) =>
                   Cardinality(PostsFor(booked[k].key)) = 1

C10_Witness ==
    /\ pc = "done"
    /\ fill_courts
    /\ \E i \in LogIndex, j \in LogIndex :
          /\ i < j
          /\ log[i].op = "POST"
          /\ log[i].result = "Timeout"
          /\ log[j].op = "POST"
          /\ log[j].date # log[i].date

====
